---------------------------- MODULE Spec2Model ----------------------------
(***************************************************************************)
(* Model of the versioned waveform-scan parser of squash                   *)
(* (src/src/formats.py: DataFormat_v1.parser, DataFormat_v2.parser).       *)
(*                                                                         *)
(* One behaviour is one call parser(raw, output).  The input file and the  *)
(* behaviour of the numeric collaborators (fit_signal, curve_fit) on that  *)
(* file are fixed when the call starts (variable input); the actions are   *)
(* the steps of the call: header, one (step, trial) record of the reader,  *)
(* the raw return, the reduction, one step of the pulse-fit loop, the      *)
(* calibration loop and the two assembling returns.                        *)
(*                                                                         *)
(* Python indices are kept: steps, trials, channels and samples are        *)
(* 0-based functions; entry is the Python list, kept as the 0-based        *)
(* function EntryAt reads.  Floating point is replaced by integers: the    *)
(* mean is the floor of the average and sigma is kept as ntrial^2 * std^2, *)
(* which is zero exactly when np.std is.                                   *)
(***************************************************************************)
EXTENDS Integers, Sequences, FiniteSets, TLC

VARIABLES
    input,      \* the call: file description, output mode, collaborator oracle
    pc,         \* position of the call
    pos,        \* number of lines of the file consumed so far (fp)
    entry,      \* the list `entry`
    tempDict,   \* v2: the header dictionary
    offset, nstep, ntrial, nsample, front, back,   \* locals of parser
    i, j,       \* loop indices of the reader (i, j) and of the fit loop (i)
    data,       \* np.zeros((nstep, ntrial, 16, nsample)), filled by the reader
    reads,      \* per record read so far, the file position of its first data line
    mean, sigma,\* np.mean(data, axis=1), np.std(data, axis=1)
    y,          \* peak_value: np.zeros((16, nstep))
    calls,      \* the fit_signal calls made for each (step, channel)
    pars, errs, \* rows stacked by the calibration loop
    result      \* what the call returned or raised

vars == << input, pc, pos, entry, tempDict, offset, nstep, ntrial, nsample,
           front, back, i, j, data, reads, mean, sigma, y, calls, pars, errs,
           result >>

---------------------------------------------------------------------------
(* Bounds of the explored inputs *)
MaxSteps == 3
MaxTrials == 2
MaxSamples == 2

(* Program constants *)
NChannels == 16
PedestalGuess == 1500
GainGuess == 375
PedestalMin == 500
GainMin == 275
PedestalMax == 2500
GainMax == 475

Channels == 0 .. (NChannels - 1)
Min(a, b) == IF a < b THEN a ELSE b
Max(a, b) == IF a > b THEN a ELSE b

(* The exception classes of formats.py and the ones the collaborators raise *)
DataFormatErrors == {"DataFormatError", "DataTypeError", "DataParseError"}

---------------------------------------------------------------------------
(* The input file.  A line carries what the parser can read from it: a     *)
(* "KEY:VALUE" key (empty when the line holds no colon), its text or       *)
(* number, and its whitespace-separated tokens.  role, rec and grp say     *)
(* what the line is in the file layout; the parser never reads them.       *)

NoLine == [eof |-> TRUE, key |-> "", isnum |-> FALSE, num |-> 0, text |-> "",
           toks |-> << >>, role |-> "eof", rec |-> 0, grp |-> 0]

TextLine(k, t) == [NoLine EXCEPT !.eof = FALSE, !.key = k, !.text = t,
                                 !.role = "header"]
NumLine(k, n) == [NoLine EXCEPT !.eof = FALSE, !.key = k, !.isnum = TRUE,
                                !.num = n, !.role = "header"]

(* An encoded word holds two samples; a negative token is malformed. *)
HalfBase == 65536
Malformed == 0 - 1
split_dword(w) == << w % HalfBase, w \div HalfBase >>

(* The sample of absolute channel ch (0..63) at (step, trial, sample):     *)
(* pedestal + gain * step, a pulse over the samples, and trial noise on    *)
(* the odd channels only (an even channel has zero variance).              *)
SampleOf(st, tr, ch, s) ==
    PedestalGuess + GainGuess * st + 3 * ch + 20 * s + tr * (ch % 2) * (s + 1)

Word(st, tr, grp, c, s) ==
    SampleOf(st, tr, 16 * grp + 2 * c, s)
      + HalfBase * SampleOf(st, tr, 16 * grp + 2 * c + 1, s)

RecLines(in) == 4 + 4 * in.nsample
NRecords(in) == in.nstep * in.ntrial
GroupOf(in) == in.offset \div 16

(* Defect-free body line q (0-based, counted from the first separator of   *)
(* record 0): 2 separators, 4 groups of nsample lines of 8 words, 2        *)
(* separators.                                                             *)
LayoutLine(in, q) ==
    LET r   == q \div RecLines(in)
        off == q % RecLines(in)
        g   == (off - 2) \div in.nsample
        l   == (off - 2) % in.nsample
        st  == r \div in.ntrial
        tr  == r % in.ntrial
        tok(t) == Word(st, tr, g, t \div in.nsample, t % in.nsample)
        own == g = GroupOf(in) /\ r + 1 = in.drec
        ntok == IF own /\ l = in.nsample - 1 /\ in.defect = "extra" THEN 9
                ELSE IF own /\ l = in.nsample - 1 /\ in.defect = "short" THEN 7
                ELSE 8
    IN  IF off < 2 \/ off >= RecLines(in) - 2
        THEN [NoLine EXCEPT !.eof = FALSE, !.role = "sep", !.rec = r]
        ELSE [NoLine EXCEPT !.eof = FALSE, !.role = "data", !.rec = r, !.grp = g,
                !.toks = [t \in 1 .. ntok |->
                            IF own /\ l = 0 /\ t = 1 /\ in.defect = "badtoken"
                            THEN Malformed
                            ELSE tok(8 * l + t - 1)]]

(* The body with the file's defect applied. *)
DefectAt(in) == (in.drec - 1) * RecLines(in) + 2
BodyLen(in) ==
    IF in.defect = "eof"
    THEN DefectAt(in) + GroupOf(in) * in.nsample + in.nsample - 1
    ELSE IF in.defect = "extraline" THEN NRecords(in) * RecLines(in) + 1
    ELSE NRecords(in) * RecLines(in)

BodyLine(in, q) ==
    IF q >= BodyLen(in) THEN NoLine
    ELSE IF in.defect = "extraline" /\ q = DefectAt(in)
    THEN [NoLine EXCEPT !.eof = FALSE, !.role = "extra", !.rec = in.drec - 1,
            !.toks = [t \in 1 .. 8 |-> Word(0, 0, 0, 0, 0)]]
    ELSE IF in.defect = "extraline" /\ q > DefectAt(in) THEN LayoutLine(in, q - 1)
    ELSE LayoutLine(in, q)

(* The header lines.  v1: label, the line parsed as entry[2], four lines   *)
(* that are discarded, four integer lines.  v2: KEY:VALUE lines.           *)
V1Header(in) ==
    << TextLine("", "label"), NumLine("", in.offset),
       TextLine("", "x"), TextLine("", "x"), TextLine("", "x"), TextLine("", "x"),
       NumLine("", in.nstep), NumLine("", in.ntrial),
       NumLine("", in.third), NumLine("", in.nsample) >>

V2Header(in) ==
    SelectSeq(
      << TextLine("BOARDID", "0x70"), NumLine("CHANNELMIN", in.offset),
         NumLine("NUMBEROFSTEPS", in.nstep), NumLine("EVENTSPERSTEP", in.ntrial),
         NumLine("DACPERSTEP", in.third), NumLine("NSAMPLES", in.nsample),
         TextLine("TESTERID", "tester7") >>,
      LAMBDA ln : ~(in.defect = "nokey" /\ ln.key = in.dkey))

Header(in) == IF in.version = "v1" THEN V1Header(in) ELSE V2Header(in)

LineAt(in, p) ==
    LET h == Header(in)
    IN  IF p < Len(h) THEN h[p + 1] ELSE BodyLine(in, p - Len(h))

FileLen(in) == Len(Header(in)) + BodyLen(in)


---------------------------------------------------------------------------
(* The calls explored.  Every call fixes a format version, an output mode, *)
(* a scan geometry and at most one fault: a defect of the file, a failing  *)
(* pulse fit at one (step, channel), or a failing calibration fit of one   *)
(* channel.                                                                *)

Versions == {"v1", "v2"}
Outputs == {"raw", "signal", "entry"}
Offsets == {0, 16, 32, 48}
FitOutcomes == {"ok", "ValueError", "LinAlgError", "RuntimeError"}
RequiredKeys == {"CHANNELMIN", "NUMBEROFSTEPS", "EVENTSPERSTEP", "DACPERSTEP",
                 "NSAMPLES"}
BodyDefects == {"extra", "short", "badtoken", "eof", "extraline"}
FaultChannels == {0, NChannels - 1}

BaseInput(v, o, off, ns, nt, nsm) ==
    [version |-> v, output |-> o, offset |-> off, nstep |-> ns, ntrial |-> nt,
     nsample |-> nsm, third |-> 100, defect |-> "none", drec |-> 0, dkey |-> "",
     fi |-> 0, fj |-> 0, fw |-> "ok", fu |-> "ok", lav |-> TRUE,
     cch |-> 0, cexc |-> "ok"]

ValidInputs ==
    { BaseInput(v, o, off, ns, nt, nsm) :
        v \in Versions, o \in Outputs, off \in Offsets,
        ns \in 1 .. MaxSteps, nt \in 1 .. MaxTrials, nsm \in 1 .. MaxSamples }

DefectInputs ==
    UNION { { [b EXCEPT !.defect = d, !.drec = r] :
                d \in BodyDefects, r \in {1, NRecords(b)} } :
            b \in { x \in ValidInputs : x.offset \in {0, 48} } }

HeaderDefectInputs ==
    { [BaseInput("v2", o, 0, MaxSteps, 1, 1) EXCEPT !.defect = "nokey", !.dkey = k] :
        o \in Outputs, k \in RequiredKeys }

(* A fault: the outcomes of the weighted and of the unweighted call, and   *)
(* whether the installed numpy derives LinAlgError from ValueError (it    *)
(* does in recent releases and derived it from Exception before).  The    *)
(* unweighted outcome is varied only where the retry is reached.          *)
FitFaults ==
    { f \in (FitOutcomes \ {"ok"}) \X FitOutcomes \X BOOLEAN :
        /\ f[1] = "RuntimeError" => f[2] = "ok"
        /\ f[1] # "LinAlgError" => f[3]
        /\ ~f[3] => f[2] = "ok" }

FitFaultInputs ==
    UNION { { [b EXCEPT !.fi = fi, !.fj = fj, !.fw = f[1], !.fu = f[2],
                        !.lav = f[3]] :
                fi \in 0 .. (b.nstep - 1), fj \in FaultChannels, f \in FitFaults } :
            b \in { x \in ValidInputs :
                      x.output # "raw" /\ x.offset = 0 /\ x.nsample = 1 } }

CalFaultInputs ==
    UNION { { [b EXCEPT !.cch = c, !.cexc = e] :
                c \in Channels, e \in {"RuntimeError", "ValueError"} } :
            b \in { x \in ValidInputs :
                      x.output # "raw" /\ x.offset = 0 /\ x.nsample = 1 } }

Inputs == ValidInputs \cup DefectInputs \cup HeaderDefectInputs
            \cup FitFaultInputs \cup CalFaultInputs

---------------------------------------------------------------------------
(* The call *)

Unset == << >>
Raised(exc, stage) == [kind |-> "error", exc |-> exc, at |-> stage]

Init ==
    /\ input \in Inputs
    /\ pc = "header"
    /\ pos = 0
    /\ entry = << "path" >>
    /\ tempDict = Unset
    /\ offset = 0 /\ nstep = 0 /\ ntrial = 0 /\ nsample = 0
    /\ front = 0 /\ back = 0
    /\ i = 0 /\ j = 0
    /\ data = Unset /\ reads = << >>
    /\ mean = Unset /\ sigma = Unset /\ y = Unset /\ calls = Unset
    /\ pars = << >> /\ errs = << >>
    /\ result = [kind |-> "none"]

(* entry[k] of the Python list *)
EntryAt(e, k) == e[k + 1]

(* read_and_discard_lines(fp, n) and fp.readline(): the position after n   *)
(* lines; at the end of the file nothing more is consumed.                 *)
Discard(in, p, n) == Min(p + n, FileLen(in))

(* Variant: nsample taken from entry[5] *)
GeometryEntry5(e) ==
    LET off == EntryAt(e, 2)
        nsm == EntryAt(e, 5)
        group == off \div 16
    IN  [offset |-> off, nstep |-> EntryAt(e, 3), ntrial |-> EntryAt(e, 4),
         nsample |-> nsm, front |-> group * nsm, back |-> (3 - group) * nsm]

(* offset = entry[2]; nstep = entry[3]; ntrial = entry[4]; nsample =       *)
(* entry[6]; group = offset // 16; front, back                             *)
Geometry(e) ==
    LET off == EntryAt(e, 2)
        nsm == EntryAt(e, 6)
        group == off \div 16
    IN  [offset |-> off, nstep |-> EntryAt(e, 3), ntrial |-> EntryAt(e, 4),
         nsample |-> nsm, front |-> group * nsm, back |-> (3 - group) * nsm]

Zeros(ns, nt, nsm) ==
    [st \in 0 .. (ns - 1) |-> [tr \in 0 .. (nt - 1) |->
        [ch \in Channels |-> [s \in 0 .. (nsm - 1) |-> 0]]]]

EnterReader(e, p) ==
    LET g == Geometry(e)
    IN  /\ entry' = e
        /\ pos' = p
        /\ offset' = g.offset /\ nstep' = g.nstep /\ ntrial' = g.ntrial
        /\ nsample' = g.nsample /\ front' = g.front /\ back' = g.back
        /\ data' = Zeros(g.nstep, g.ntrial, g.nsample)
        /\ pc' = IF g.nstep * g.ntrial = 0 THEN "readdone" ELSE "read"
        /\ UNCHANGED << input, i, j, reads, mean, sigma, y, calls, pars, errs,
                        result >>

Fail(exc, stage) ==
    /\ pc' = "done"
    /\ result' = Raised(exc, stage)

(* DataFormat_v1.parser, header: two config lines, four discarded lines,   *)
(* four integer config lines.                                              *)
ParseHeader_v1 ==
    /\ pc = "header" /\ input.version = "v1"
    /\ LET l0 == LineAt(input, 0)
           l1 == LineAt(input, 1)
           ints == [k \in 0 .. 3 |-> LineAt(input, 6 + k)]
       IN  IF l1.isnum /\ \A k \in 0 .. 3 : ints[k].isnum
           THEN /\ EnterReader(entry \o << l0.text, l1.num, ints[0].num,
                                          ints[1].num, ints[2].num, ints[3].num >>,
                               Discard(input, 0, 10))
                /\ UNCHANGED tempDict
           ELSE /\ Fail("ValueError", "header")
                /\ UNCHANGED << input, pos, entry, tempDict, offset, nstep, ntrial,
                                nsample, front, back, i, j, data, reads, mean,
                                sigma, y, calls, pars, errs >>

(* DataFormat_v2.parser, header: KEY:VALUE lines up to and including the   *)
(* first line without a colon, then tempDict.get(key, "NA") and int().     *)
RECURSIVE ScanHeader(_, _, _)
ScanHeader(in, p, d) ==
    LET ln == LineAt(in, p)
    IN  IF ln.key = "" THEN [stop |-> p, dict |-> d]
        ELSE ScanHeader(in, p + 1, (ln.key :> ln) @@ d)

NA == TextLine("", "NA")
Get(d, k) == IF k \in DOMAIN d THEN d[k] ELSE NA

ParseHeader_v2 ==
    /\ pc = "header" /\ input.version = "v2"
    /\ \E scan \in { ScanHeader(input, 0, << >>) } :
       LET stop == scan.stop
           dict == scan.dict
           ints == << Get(dict, "CHANNELMIN"), Get(dict, "NUMBEROFSTEPS"),
                      Get(dict, "EVENTSPERSTEP"), Get(dict, "DACPERSTEP"),
                      Get(dict, "NSAMPLES") >>
       IN  /\ tempDict' = dict
           /\ IF \A k \in 1 .. 5 : ints[k].isnum
              THEN EnterReader(entry \o << Get(dict, "BOARDID").text, ints[1].num,
                                          ints[2].num, ints[3].num, ints[4].num,
                                          ints[5].num >>,
                               Discard(input, stop, 1))
              ELSE /\ Fail("ValueError", "header")
                   /\ pos' = Discard(input, stop, 1)
                   /\ UNCHANGED << input, entry, offset, nstep, ntrial, nsample,
                                   front, back, i, j, data, reads, mean, sigma, y,
                                   calls, pars, errs >>

---------------------------------------------------------------------------
(* The reader: one (step, trial) record *)

(* Separator lines discarded before a record: 2, and 1 before the first    *)
(* record of a v2 file, whose first separator the header loop consumed.    *)
(* Variant: every record discards 2 separators *)
SepLinesAlways2(v, st, tr) == 2

SepLines(v, st, tr) == IF v = "v2" /\ st = 0 /\ tr = 0 THEN 1 ELSE 2

(* raw.extend(filter(None, line.split(' '))) over n readline() calls *)
RECURSIVE ReadTokens(_, _, _)
ReadTokens(in, p, n) ==
    IF n <= 0 THEN << >>
    ELSE LineAt(in, p).toks \o ReadTokens(in, p + 1, n - 1)

(* zip over nsample copies of iter(raw): the full groups of nsample words *)
NGroups(raw, nsm) == IF nsm = 0 THEN 0 ELSE Len(raw) \div nsm

(* Variant: the high half is appended before the low half *)
DecodeSwapped(raw, nsm) ==
    [ch \in 0 .. (2 * NGroups(raw, nsm) - 1) |->
        [s \in 0 .. (nsm - 1) |->
            split_dword(raw[(ch \div 2) * nsm + s + 1])[2 - (ch % 2)]]]

(* channels: two rows (low, high) per group of nsample words *)
Decode(raw, nsm) ==
    [ch \in 0 .. (2 * NGroups(raw, nsm) - 1) |->
        [s \in 0 .. (nsm - 1) |->
            split_dword(raw[(ch \div 2) * nsm + s + 1])[(ch % 2) + 1]]]

(* data[i, j] = channels succeeds when channels has the 16 rows of the slot *)
Assignable(nrows) == nrows = NChannels

ReadRecord ==
    /\ pc = "read"
    /\ \E p0 \in { Discard(input, Discard(input, pos, SepLines(input.version, i, j)),
                           front) } :
       \E raw \in { ReadTokens(input, p0, nsample) } :
       LET p1  == Discard(input, p0, nsample)
           m   == NGroups(raw, nsample)
           last == j + 1 = ntrial /\ i + 1 = nstep
       IN  /\ reads' = Append(reads, p0)
           /\ IF \E t \in 1 .. (m * nsample) : raw[t] < 0
              THEN /\ Fail("DecodeError", "reader")
                   /\ pos' = p1
                   /\ UNCHANGED << i, j, data >>
              ELSE IF ~Assignable(2 * m)
              THEN /\ Fail("ValueError", "reader")
                   /\ pos' = p1
                   /\ UNCHANGED << i, j, data >>
              ELSE /\ data' = [data EXCEPT ![i][j] = Decode(raw, nsample)]
                   /\ pos' = Discard(input, Discard(input, p1, back), 2)
                   /\ i' = IF j + 1 = ntrial THEN i + 1 ELSE i
                   /\ j' = IF j + 1 = ntrial THEN 0 ELSE j + 1
                   /\ pc' = IF last THEN "readdone" ELSE "read"
                   /\ UNCHANGED result
    /\ UNCHANGED << input, entry, tempDict, offset, nstep, ntrial, nsample, front,
                    back, mean, sigma, y, calls, pars, errs >>

(* if output == 'raw': return data *)
ReturnRaw ==
    /\ pc = "readdone" /\ input.output = "raw"
    /\ pc' = "done"
    /\ result' = [kind |-> "tensor", value |-> data]
    /\ UNCHANGED << input, pos, entry, tempDict, offset, nstep, ntrial, nsample,
                    front, back, i, j, data, reads, mean, sigma, y, calls, pars,
                    errs >>

---------------------------------------------------------------------------
(* The reduction over the trial axis *)

RECURSIVE SumTo(_, _)
SumTo(f, n) == IF n <= 0 THEN 0 ELSE f[n - 1] + SumTo(f, n - 1)

Mean(d, ns, nt, nsm) ==
    [st \in 0 .. (ns - 1) |-> [ch \in Channels |-> [s \in 0 .. (nsm - 1) |->
        SumTo([tr \in 0 .. (nt - 1) |-> d[st][tr][ch][s]], nt) \div nt]]]

Std(d, ns, nt, nsm) ==
    [st \in 0 .. (ns - 1) |-> [ch \in Channels |-> [s \in 0 .. (nsm - 1) |->
        LET col == [tr \in 0 .. (nt - 1) |-> d[st][tr][ch][s]]
            sq  == [tr \in 0 .. (nt - 1) |-> col[tr] * col[tr]]
        IN  nt * SumTo(sq, nt) - SumTo(col, nt) * SumTo(col, nt)]]]

Reduce ==
    /\ pc = "readdone" /\ input.output # "raw"
    /\ mean' = Mean(data, nstep, ntrial, nsample)
    /\ sigma' = Std(data, nstep, ntrial, nsample)
    /\ y' = [ch \in Channels |-> [st \in 0 .. (nstep - 1) |-> 0]]
    /\ calls' = [ch \in Channels |-> [st \in 0 .. (nstep - 1) |-> << >>]]
    /\ i' = 0
    /\ pc' = IF nstep = 0 THEN "calibrate" ELSE "fit"
    /\ UNCHANGED << input, pos, entry, tempDict, offset, nstep, ntrial, nsample,
                    front, back, j, data, reads, pars, errs, result >>

---------------------------------------------------------------------------
(* The pulse-shape fit loop: one step i, channels 0..15 *)

(* fit_signal(mean, sigma, nsample, i, j): with weights, a zero sigma in   *)
(* the waveform raises ValueError; otherwise the outcome is the one the    *)
(* call fixes for this (step, channel), "ok" when it fixes none.           *)
Faulty(in, st, ch) == in.fw # "ok" /\ in.fi = st /\ in.fj = ch

FitOutcome(in, st, ch, weighted, sg) ==
    IF weighted
    THEN IF \E s \in DOMAIN sg[st][ch] : sg[st][ch][s] = 0 THEN "ValueError"
         ELSE IF Faulty(in, st, ch) THEN in.fw ELSE "ok"
    ELSE IF Faulty(in, st, ch) THEN in.fu ELSE "ok"

(* popt: amplitude and location of the pulse fitted to mean[i][j] *)
FitParams(mn, st, ch) ==
    LET w == mn[st][ch]
        at == CHOOSE s \in DOMAIN w :
                /\ \A s2 \in DOMAIN w : w[s2] <= w[s]
                /\ \A s2 \in DOMAIN w : w[s2] = w[s] => s <= s2
    IN  << w[at], at >>

(* xmin = fmin(min_form, 5, args=popt); powerlaw_doubleexp at xmin *)
PulsePeak(popt) == popt[1]

(* `except cls` catches cls and its subclasses; whether LinAlgError is a   *)
(* ValueError depends on the installed numpy (in.lav).                     *)
Catches(in, cls, exc) ==
    exc = cls \/ (cls = "ValueError" /\ exc = "LinAlgError" /\ in.lav)

Call(weighted, outcome, popt) ==
    [weighted |-> weighted, outcome |-> outcome, popt |-> popt]

(* Variant: the retry is made but its result is not used *)
FitPointNoRetryUse(in, st, ch, mn, sg) ==
    LET w == FitOutcome(in, st, ch, TRUE, sg)
        u == FitOutcome(in, st, ch, FALSE, sg)
        popt == FitParams(mn, st, ch)
    IN  IF w = "ok"
        THEN [calls |-> << Call(TRUE, w, popt) >>, status |-> "set",
              peak |-> PulsePeak(popt), exc |-> ""]
        ELSE IF Catches(in, "ValueError", w)
        THEN [calls |-> << Call(TRUE, w, << >>), Call(FALSE, u, popt) >>,
              status |-> "pass", peak |-> 0, exc |-> ""]
        ELSE [calls |-> << Call(TRUE, w, << >>) >>, status |-> "pass", peak |-> 0,
              exc |-> ""]

(* The try/except ladder of one (step, channel): the calls made, and       *)
(* whether y[j][i] is set, left alone (pass) or the exception leaves the   *)
(* loop (raise).                                                           *)
FitPoint(in, st, ch, mn, sg) ==
    LET w == FitOutcome(in, st, ch, TRUE, sg)
        u == FitOutcome(in, st, ch, FALSE, sg)
        popt == FitParams(mn, st, ch)
    IN  IF w = "ok"
        THEN [calls |-> << Call(TRUE, w, popt) >>, status |-> "set",
              peak |-> PulsePeak(popt), exc |-> ""]
        ELSE IF Catches(in, "ValueError", w)
        THEN IF u = "ok"
             THEN [calls |-> << Call(TRUE, w, << >>), Call(FALSE, u, popt) >>,
                   status |-> "set", peak |-> PulsePeak(popt), exc |-> ""]
             ELSE IF Catches(in, "LinAlgError", u) \/ Catches(in, "RuntimeError", u)
             THEN [calls |-> << Call(TRUE, w, << >>), Call(FALSE, u, << >>) >>,
                   status |-> "pass", peak |-> 0, exc |-> ""]
             ELSE [calls |-> << Call(TRUE, w, << >>), Call(FALSE, u, << >>) >>,
                   status |-> "raise", peak |-> 0, exc |-> u]
        ELSE IF Catches(in, "RuntimeError", w)
        THEN [calls |-> << Call(TRUE, w, << >>) >>, status |-> "pass", peak |-> 0,
              exc |-> ""]
        ELSE [calls |-> << Call(TRUE, w, << >>) >>, status |-> "raise", peak |-> 0,
              exc |-> w]

FitStep ==
    /\ pc = "fit"
    /\ \E pt \in { [ch \in Channels |-> FitPoint(input, i, ch, mean, sigma)] } :
       LET raising == { ch \in Channels : pt[ch].status = "raise" }
           stop == IF raising = {} THEN NChannels
                   ELSE CHOOSE ch \in raising : \A c2 \in raising : ch <= c2
       IN  /\ y' = [ch \in Channels |->
                      IF ch < stop /\ pt[ch].status = "set"
                      THEN [y[ch] EXCEPT ![i] = pt[ch].peak] ELSE y[ch]]
           /\ calls' = [ch \in Channels |->
                      IF ch <= stop THEN [calls[ch] EXCEPT ![i] = pt[ch].calls]
                      ELSE calls[ch]]
           /\ IF raising # {}
              THEN /\ Fail(pt[stop].exc, "fit")
                   /\ UNCHANGED i
              ELSE /\ i' = i + 1
                   /\ pc' = IF i + 1 = nstep THEN "calibrate" ELSE "fit"
                   /\ UNCHANGED result
    /\ UNCHANGED << input, pos, entry, tempDict, offset, nstep, ntrial, nsample,
                    front, back, j, data, reads, mean, sigma, pars, errs >>

---------------------------------------------------------------------------
(* The calibration loop: channels 0..15 *)

(* a[2:] of a row of n entries, as a sequence *)
From2(a, n) == [k \in 1 .. (n - 2) |-> a[k + 1]]

(* x = np.arange(nstep) *)
Arange(n) == [k \in 0 .. (n - 1) |-> k]

RECURSIVE SeqSum(_)
SeqSum(q) == IF q = << >> THEN 0 ELSE Head(q) + SeqSum(Tail(q))

Clamp(lo, hi, v) == Max(lo, Min(hi, v))
Infinite == 0 - 1

(* curve_fit(linear, xs, ys, p0=pval, bounds=(bmin, bmax)): the bounded    *)
(* least-squares line through the points, and the squared standard errors  *)
(* (infinite when the points do not exceed the two parameters).  No point  *)
(* at all raises ValueError.                                               *)
CurveFit(xs, ys) ==
    LET n   == Len(ys)
        sx  == SeqSum(xs)
        sy  == SeqSum(ys)
        sxx == SeqSum([k \in 1 .. n |-> xs[k] * xs[k]])
        sxy == SeqSum([k \in 1 .. n |-> xs[k] * ys[k]])
        den == n * sxx - sx * sx
        gain == Clamp(GainMin, GainMax,
                      IF den = 0 THEN GainGuess ELSE (n * sxy - sx * sy) \div den)
        ped == Clamp(PedestalMin, PedestalMax, (sy - gain * sx) \div n)
        rss == SeqSum([k \in 1 .. n |->
                         (ys[k] - ped - gain * xs[k]) * (ys[k] - ped - gain * xs[k])])
    IN  IF n = 0 THEN [exc |-> "ValueError", popt |-> << >>, perr |-> << >>]
        ELSE [exc |-> "ok", popt |-> << ped, gain >>,
              perr |-> IF n <= 2 THEN << Infinite, Infinite >>
                       ELSE << (rss * sxx) \div ((n - 2) * den),
                               (rss * n) \div ((n - 2) * den) >>]

(* Variant: the slices x[1:] and y[ch, 1:] *)
CalInputFrom1(yy, ch, n) ==
    [x |-> [k \in 1 .. (n - 1) |-> Arange(n)[k]],
     y |-> [k \in 1 .. (n - 1) |-> yy[ch][k]]]

(* x[2:] and y[ch, 2:] *)
CalInput(yy, ch, n) == [x |-> From2(Arange(n), n), y |-> From2(yy[ch], n)]

(* The fit of channel ch: the exception the call fixes for it, else the fit *)
CalFit(in, yy, ch, n) ==
    IF in.cexc # "ok" /\ in.cch = ch
    THEN [exc |-> in.cexc, popt |-> << >>, perr |-> << >>]
    ELSE CurveFit(CalInput(yy, ch, n).x, CalInput(yy, ch, n).y)

(* Variant: a failing channel gets the initial guess and the loop goes on *)
CalibrateAllSwallow(in, yy, n) ==
    LET fit == [ch \in Channels |-> CalFit(in, yy, ch, n)]
    IN  [pars |-> [k \in 1 .. NChannels |->
                     IF fit[k - 1].exc = "ok" THEN fit[k - 1].popt
                     ELSE << PedestalGuess, GainGuess >>],
         errs |-> [k \in 1 .. NChannels |->
                     IF fit[k - 1].exc = "ok" THEN fit[k - 1].perr
                     ELSE << Infinite, Infinite >>],
         exc  |-> "ok"]

(* The rows stacked before the first failing channel, and its exception *)
CalibrateAll(in, yy, n) ==
    LET fit == [ch \in Channels |-> CalFit(in, yy, ch, n)]
        failing == { ch \in Channels : fit[ch].exc # "ok" }
        stop == IF failing = {} THEN NChannels
                ELSE CHOOSE ch \in failing : \A c2 \in failing : ch <= c2
    IN  [pars |-> [k \in 1 .. stop |-> fit[k - 1].popt],
         errs |-> [k \in 1 .. stop |-> fit[k - 1].perr],
         exc  |-> IF failing = {} THEN "ok" ELSE fit[stop].exc]

Calibrate ==
    /\ pc = "calibrate"
    /\ \E c \in { CalibrateAll(input, y, nstep) } :
           /\ pars' = c.pars
           /\ errs' = c.errs
           /\ IF c.exc = "ok"
              THEN pc' = "assemble" /\ UNCHANGED result
              ELSE Fail(c.exc, "calibrate")
    /\ UNCHANGED << input, pos, entry, tempDict, offset, nstep, ntrial, nsample,
                    front, back, i, j, data, reads, mean, sigma, y, calls >>

---------------------------------------------------------------------------
(* The assembler *)

(* entry.append(str(pars) + str(errs)); entry.append('ENTRY ADDED: ...') *)
WithCoefs(e, p, r) == e \o << [coefs |-> << p, r >>], "ENTRY ADDED" >>

(* Variant: the tester id is appended for every version *)
TrailerAlways(v, d) == << Get(d, "TESTERID").text >>

(* the fields appended after the `with` block: v2 appends the tester id *)
Trailer(v, d) == IF v = "v2" THEN << Get(d, "TESTERID").text >> ELSE << >>

(* if output == 'signal': return mean, sigma, y, pars, errs *)
ReturnSignal ==
    /\ pc = "assemble" /\ input.output = "signal"
    /\ entry' = WithCoefs(entry, pars, errs)
    /\ result' = [kind |-> "signal", value |-> << mean, sigma, y, pars, errs >>]
    /\ pc' = "done"
    /\ UNCHANGED << input, pos, tempDict, offset, nstep, ntrial, nsample, front,
                    back, i, j, data, reads, mean, sigma, y, calls, pars, errs >>

(* return entry *)
ReturnEntry ==
    /\ pc = "assemble" /\ input.output # "signal"
    /\ entry' = WithCoefs(entry, pars, errs) \o Trailer(input.version, tempDict)
    /\ result' = [kind |-> "entry", value |-> entry']
    /\ pc' = "done"
    /\ UNCHANGED << input, pos, tempDict, offset, nstep, ntrial, nsample, front,
                    back, i, j, data, reads, mean, sigma, y, calls, pars, errs >>

Next ==
    \/ ParseHeader_v1
    \/ ParseHeader_v2
    \/ ReadRecord
    \/ ReturnRaw
    \/ Reduce
    \/ FitStep
    \/ Calibrate
    \/ ReturnSignal
    \/ ReturnEntry

Spec == Init /\ [][Next]_vars

---------------------------------------------------------------------------
(* Properties *)

HeaderLines == Len(Header(input))
FileOk == input.defect = "none"
Returned == pc = "done" /\ result.kind \in {"tensor", "signal", "entry"}
RaisedAt(stage) == pc = "done" /\ result.kind = "error" /\ result.at = stage

(* the reduction has run: mean, sigma, y and calls hold arrays *)
Reduced ==
    \/ pc \in {"fit", "calibrate", "assemble"}
    \/ Returned /\ result.kind # "tensor"
    \/ RaisedAt("fit") \/ RaisedAt("calibrate")

(* the calibration loop has run *)
Calibrated ==
    \/ pc = "assemble"
    \/ Returned /\ result.kind # "tensor"
    \/ RaisedAt("calibrate")

(* C1: a raw parse of a file whose records all hold the declared lines and *)
(* 8 * n_samples words returns a tensor of shape (n_steps, n_trials, 16,   *)
(* n_samples) whose every slot holds the decoded sample of its own record, *)
(* channel and sample, and none the zero placeholder.                      *)
C1_RawTensorOfOwnRecords ==
    (pc = "done" /\ input.output = "raw" /\ FileOk) =>
        /\ result.kind = "tensor"
        /\ DOMAIN result.value = 0 .. (input.nstep - 1)
        /\ \A st \in 0 .. (input.nstep - 1) :
            /\ DOMAIN result.value[st] = 0 .. (input.ntrial - 1)
            /\ \A tr \in 0 .. (input.ntrial - 1) :
                /\ DOMAIN result.value[st][tr] = Channels
                /\ \A ch \in Channels :
                    /\ DOMAIN result.value[st][tr][ch] = 0 .. (input.nsample - 1)
                    /\ \A s \in 0 .. (input.nsample - 1) :
                        /\ result.value[st][tr][ch][s]
                             = SampleOf(st, tr, 16 * GroupOf(input) + ch, s)
                        /\ result.value[st][tr][ch][s] # 0

C1_Witness ==
    /\ Returned /\ result.kind = "tensor" /\ FileOk
    /\ input.version = "v2" /\ input.offset = 48
    /\ input.nstep = MaxSteps /\ input.ntrial = MaxTrials
    /\ input.nsample = MaxSamples
    /\ result.value[MaxSteps - 1][MaxTrials - 1][NChannels - 1][MaxSamples - 1] > 0

(* C2: a record with a wrong number of lines or words, a malformed word or *)
(* a premature end of the file makes the call raise DataParseError; no     *)
(* tensor, signal bundle or entry is returned.                             *)
C2_DefectRaisesDataParseError ==
    (pc = "done" /\ input.defect \in BodyDefects) =>
        /\ result.kind = "error"
        /\ result.exc = "DataParseError"

(* C3: a v2 header lacking a required key makes the call raise an error of *)
(* the DataFormatError family, before the reader reads any record.         *)
C3_MissingKeyRaisesFormatError ==
    (pc = "done" /\ input.defect = "nokey") =>
        /\ result.kind = "error"
        /\ result.exc \in DataFormatErrors
        /\ reads = << >>

(* C4: whatever fit failures the weighted attempt and the unweighted retry *)
(* raise, the call does not end in the pulse-fit loop.                     *)
C4_FitLoopNeverAborts == ~RaisedAt("fit")

(* C5: the calibration fit reads steps 2..n_steps-1 only: replacing the    *)
(* peak values of steps 0 and 1 of every channel by any other values       *)
(* gives the same pars and errs.                                           *)
ProbePeaks == {0, 9999}

C5_CalibrationIgnoresSteps01 ==
    (Calibrated /\ nstep >= 2) =>
        \A a \in ProbePeaks, b \in ProbePeaks :
            LET other == [ch \in Channels |-> [y[ch] EXCEPT ![0] = a, ![1] = b]]
                again == CalibrateAll(input, other, nstep)
            IN  again.pars = pars /\ again.errs = errs

C5_Witness ==
    /\ pc = "assemble" /\ nstep >= 3
    /\ \A ch \in Channels : y[ch][0] # 0 /\ y[ch][1] # y[ch][0]
    /\ Len(pars) = NChannels

(* C6: when the calibration fit of a channel fails, the call raises that   *)
(* channel's error in signal and in entry mode: nothing is returned and    *)
(* no row of pars or errs stands for the failing channel.                  *)
C6_CalibrationFailureRaises ==
    Calibrated =>
        LET failing == { ch \in Channels : CalFit(input, y, ch, nstep).exc # "ok" }
            first == CHOOSE ch \in failing : \A c2 \in failing : ch <= c2
        IN  failing # {} =>
              /\ pc = "done"
              /\ result = Raised(CalFit(input, y, first, nstep).exc, "calibrate")
              /\ Len(pars) = first /\ Len(errs) = first

C6_Witness ==
    /\ RaisedAt("calibrate") /\ input.output = "signal"
    /\ input.cexc = "RuntimeError" /\ input.cch = 5 /\ nstep >= 3
    /\ Len(pars) = 5

(* C7: a call that returns returns the kind its output argument selects:   *)
(* raw the tensor, with no reduction, pulse fit or calibration done;       *)
(* signal the five arrays; anything else the entry, which ends with the    *)
(* tester id for v2 and with the timestamp for v1.                         *)
C7_OutputSelectsResult ==
    Returned =>
        /\ input.output = "raw" =>
              /\ result = [kind |-> "tensor", value |-> data]
              /\ mean = Unset /\ sigma = Unset /\ y = Unset /\ calls = Unset
              /\ pars = << >> /\ errs = << >>
        /\ input.output = "signal" =>
              /\ result = [kind |-> "signal",
                           value |-> << mean, sigma, y, pars, errs >>]
              /\ Len(pars) = NChannels /\ Len(errs) = NChannels
              /\ Len(entry) = 9
        /\ input.output = "entry" =>
              /\ result = [kind |-> "entry", value |-> entry]
              /\ entry[8].coefs = << pars, errs >>
              /\ entry[9] = "ENTRY ADDED"
              /\ input.version = "v1" => Len(entry) = 9
              /\ input.version = "v2" =>
                    Len(entry) = 10 /\ entry[10] = LineAt(input, 6).text

C7_Witness ==
    /\ Returned /\ result.kind = "entry" /\ input.version = "v2"
    /\ entry[Len(entry)] = "tester7"

(* C8 as stated: the v1 geometry is the four integer lines in order --     *)
(* offset, step count, trials, sample count.                               *)
C8_V1GeometryFromFourIntegers ==
    (input.version = "v1" /\ pc # "header") =>
        /\ offset = LineAt(input, 6).num
        /\ nstep = LineAt(input, 7).num
        /\ ntrial = LineAt(input, 8).num
        /\ nsample = LineAt(input, 9).num

(* C8 amended: the v1 header parser consumes ten lines -- a text line, a   *)
(* line converted to an integer, four discarded lines, four integer lines  *)
(* -- and takes the offset from the second line, the step count from the   *)
(* first integer line, the trials from the second and the sample count     *)
(* from the fourth; the third integer line is unused.                      *)
C8_V1GeometryAsParsed ==
    (input.version = "v1" /\ pc # "header") =>
        /\ offset = LineAt(input, 1).num
        /\ nstep = LineAt(input, 6).num
        /\ ntrial = LineAt(input, 7).num
        /\ nsample = LineAt(input, 9).num
        /\ front = (offset \div 16) * nsample
        /\ back = (3 - (offset \div 16)) * nsample
        /\ (pc = "read" /\ reads = << >>) => pos = 10

C8_Witness ==
    /\ input.version = "v1" /\ pc = "read" /\ reads = << >>
    /\ offset = 48 /\ nstep = MaxSteps /\ ntrial = MaxTrials /\ nsample = MaxSamples

(* C9: on a well-formed file the reader stays aligned with the records:    *)
(* the data lines read for record k are the lines of the decoded group at  *)
(* offset 2 + front_skip of record k, and after k records (k >= 1) the     *)
(* call has consumed the header and k * (4 + 4 * n_samples) body lines;    *)
(* before the first record a v2 call has consumed one body line.           *)
C9_ReaderAligned ==
    (FileOk /\ pc # "header") =>
        /\ \A k \in 1 .. Len(reads) :
            /\ reads[k] = HeaderLines + (k - 1) * (4 + 4 * input.nsample) + 2
                            + GroupOf(input) * input.nsample
            /\ \A l \in 0 .. (input.nsample - 1) :
                 LET ln == LineAt(input, reads[k] + l)
                 IN  ln.role = "data" /\ ln.rec = k - 1 /\ ln.grp = GroupOf(input)
        /\ pos = IF reads = << >>
                 THEN HeaderLines + (IF input.version = "v2" THEN 1 ELSE 0)
                 ELSE HeaderLines + Len(reads) * (4 + 4 * input.nsample)
        /\ pc # "read" => Len(reads) = input.nstep * input.ntrial

C9_Witness ==
    /\ FileOk /\ pc = "readdone" /\ input.version = "v2" /\ input.offset = 32
    /\ Len(reads) = MaxSteps * MaxTrials /\ input.nsample = MaxSamples
    /\ pos = FileLen(input)

(* C10: for every (step, channel) the weighted fit is called first; the    *)
(* unweighted fit is called, once and afterwards, exactly when the         *)
(* weighted call raised a ValueError (a LinAlgError where numpy derives it *)
(* from ValueError); when the retry succeeds the peak is                   *)
(* the model at the maximum of the retry's parameters, and when the        *)
(* weighted call succeeds the peak is that of its parameters.              *)
C10_FallbackLadder ==
    Reduced =>
        \A ch \in Channels, st \in 0 .. (nstep - 1) :
            LET cs == calls[ch][st]
            IN  cs # << >> =>
                  /\ Len(cs) <= 2
                  /\ cs[1].weighted
                  /\ Len(cs) = 2 <=>
                        \/ cs[1].outcome = "ValueError"
                        \/ cs[1].outcome = "LinAlgError" /\ input.lav
                  /\ Len(cs) = 2 => ~cs[2].weighted
                  /\ (Len(cs) = 2 /\ cs[2].outcome = "ok") =>
                        y[ch][st] = PulsePeak(cs[2].popt) /\ y[ch][st] # 0
                  /\ cs[1].outcome = "ok" => y[ch][st] = PulsePeak(cs[1].popt)

C10_Witness ==
    /\ pc = "calibrate"
    /\ \E ch \in Channels, st \in 0 .. (nstep - 1) :
        /\ Len(calls[ch][st]) = 2
        /\ calls[ch][st][1].outcome = "ValueError"
        /\ \A s \in 0 .. (nsample - 1) : sigma[st][ch][s] # 0
        /\ calls[ch][st][2].outcome = "ok"
        /\ y[ch][st] = PulsePeak(calls[ch][st][2].popt) /\ y[ch][st] > 0

=============================================================================
